---------------------------- MODULE Spec2Model ----------------------------
(***************************************************************************)
(* Model of Math_Python_LIA01/rotation_visualisierung.py: the builder of   *)
(* a 2x2 rotation matrix, the matrix-vector product, and the straight-line *)
(* script that prints, plots, saves and shows the result.                  *)
(*                                                                         *)
(* Floating-point numbers are fixed-point integers: a value x is held as   *)
(* the integer nearest to x * Scale.  Every arithmetic step rounds, as a   *)
(* binary64 step does, so equalities that hold for real numbers hold here  *)
(* only within a tolerance.                                                *)
(***************************************************************************)
EXTENDS Integers, Sequences, FiniteSets, TLC

(***************************************************************************)
(* Fixed-point arithmetic                                                  *)
(***************************************************************************)
\* one unit in the last place is 1/Scale
Scale == 10^8

\* operands are split into two limbs of Limb so that no partial product
\* leaves the 32-bit range of the checker's integers
Limb == 10^4

Abs(x) == IF x < 0 THEN -x ELSE x

\* a / b rounded to nearest, for a >= 0 and b > 0
RoundDiv(a, b) == (2 * a + b) \div (2 * b)

\* |a * b| / Scale rounded, for a, b >= 0
MulMag(a, b) ==
    LET a1 == a \div Limb
        a0 == a % Limb
        b1 == b \div Limb
        b0 == b % Limb
    IN  a1 * b1 + RoundDiv(a1 * b0 + a0 * b1 + RoundDiv(a0 * b0, Limb), Limb)

\* the product of two fixed-point numbers, a fixed-point number
Mul[a \in Int, b \in Int] ==
    IF (a < 0) = (b < 0) THEN MulMag(Abs(a), Abs(b)) ELSE -MulMag(Abs(a), Abs(b))

(***************************************************************************)
(* np.radians, np.cos, np.sin                                              *)
(***************************************************************************)
\* pi/180 = (DegToRadHi * Limb + DegToRadLo) / 10^10
DegToRadHi == 17453
DegToRadLo == 2925

\* a slip: the angle times pi/200, the conversion from gon
Radians_gon(grad) ==
    LET mag(d) == d * 15707 * 100 + RoundDiv(d * 9633, 100)
    IN  IF grad < 0 THEN -mag(-grad) ELSE mag(grad)

\* np.radians: the angle times the rounded constant pi/180
Radians(grad) ==
    LET mag(d) == d * DegToRadHi * 100 + RoundDiv(d * DegToRadLo, 100)
    IN  IF grad < 0 THEN -mag(-grad) ELSE mag(grad)

\* pi/2 = PiO2Hi / Scale + PiO2Lo / (100 * Scale)
PiO2Hi == 157079632
PiO2Lo == 68

\* the multiple of pi/2 nearest to x
Quadrant(x) == (x + PiO2Hi \div 2) \div PiO2Hi

\* x - k * pi/2, in [-pi/4, pi/4], the constant taken in two parts
Reduced(x) ==
    LET k == Quadrant(x)
        lo == IF k < 0 THEN -RoundDiv(-k * PiO2Lo, 100) ELSE RoundDiv(k * PiO2Lo, 100)
    IN  x - k * PiO2Hi - lo

\* the last factor of the highest factorial the kernels' polynomials use
LastFactor == 13

\* 1 - z/(k(k+1)) * (1 - z/((k+2)(k+3)) * (1 - ...)), z = t^2
Horner[z \in Int, k \in Nat] ==
    IF k + 1 > LastFactor THEN Scale
    ELSE Scale - RoundDiv(Mul[z, Horner[z, k + 2]], k * (k + 1))

\* sin and cos on [-pi/4, pi/4]
KernelSin(t) == Mul[t, Horner[Mul[t, t], 2]]
KernelCos(t) == Horner[Mul[t, t], 1]

\* np.sin of a fixed-point number of radians
Sin(x) ==
    LET n == Quadrant(x) % 4
        t == Reduced(x)
    IN  CASE n = 0 -> KernelSin(t)
          [] n = 1 -> KernelCos(t)
          [] n = 2 -> -KernelSin(t)
          [] n = 3 -> -KernelCos(t)

\* np.cos of a fixed-point number of radians
Cos(x) ==
    LET n == Quadrant(x) % 4
        t == Reduced(x)
    IN  CASE n = 0 -> KernelCos(t)
          [] n = 1 -> -KernelSin(t)
          [] n = 2 -> -KernelCos(t)
          [] n = 3 -> KernelSin(t)

(***************************************************************************)
(* 1. ROTATIONSMATRIX ERSTELLEN                                            *)
(***************************************************************************)
\* a slip: the sign on the other sine, the clockwise convention
erstelle_rotationsmatrix_clockwise(winkel_grad) ==
    LET winkel_rad == Radians(winkel_grad)
        cos_theta == Cos(winkel_rad)
        sin_theta == Sin(winkel_rad)
    IN  << <<cos_theta,  sin_theta>>,
           <<-sin_theta, cos_theta>> >>

\* a slip: sin_theta for cos_theta in the last entry
erstelle_rotationsmatrix_typo(winkel_grad) ==
    LET winkel_rad == Radians(winkel_grad)
        cos_theta == Cos(winkel_rad)
        sin_theta == Sin(winkel_rad)
    IN  << <<cos_theta, -sin_theta>>,
           <<sin_theta,  sin_theta>> >>

\* a slip: cos_theta and sin_theta exchanged
erstelle_rotationsmatrix_swapped(winkel_grad) ==
    LET winkel_rad == Radians(winkel_grad)
        cos_theta == Sin(winkel_rad)
        sin_theta == Cos(winkel_rad)
    IN  << <<cos_theta, -sin_theta>>,
           <<sin_theta,  cos_theta>> >>

erstelle_rotationsmatrix(winkel_grad) ==
    LET winkel_rad == Radians(winkel_grad)
        cos_theta == Cos(winkel_rad)
        sin_theta == Sin(winkel_rad)
    IN  << <<cos_theta, -sin_theta>>,
           <<sin_theta,  cos_theta>> >>

\* a slip: v @ R, the product with the transposed matrix
matmul_transposed(M, v) ==
    << M[1][1] * v[1] + M[2][1] * v[2],
       M[1][2] * v[1] + M[2][2] * v[2] >>

\* R @ v: the product of a 2x2 matrix and a 2-vector of integers
matmul(M, v) ==
    << M[1][1] * v[1] + M[1][2] * v[2],
       M[2][1] * v[1] + M[2][2] * v[2] >>

\* np.pi and 2*np.pi
Pi == 314159265
TwoPi == 2 * Pi

\* np.linspace(0, stop, num): num samples, step (stop - 0) / (num - 1), the
\* last sample set to stop itself
Linspace(stop, num) ==
    LET step == RoundDiv(stop, num - 1)
    IN  [i \in 1..num |-> IF i = num THEN stop ELSE (i - 1) * step]

(***************************************************************************)
(* Text: a number rendered as text is the record of what is written        *)
(***************************************************************************)
\* f"{x:<w>.<d>f}": x rounded to d places, sign kept, in at least w characters
FormatFixed(x, w, d) ==
    LET q == RoundDiv(Abs(x), 10^(8 - d))
    IN  [notation |-> "fixed", neg |-> x < 0,
         whole |-> q \div 10^d, frac |-> q % 10^d,
         decimals |-> d, width |-> w]

\* str() of an integer: f"{WINKEL}", f"{original_vektor[0]}", print of an
\* integer array element
FormatInt(n) ==
    [notation |-> "int", neg |-> n < 0, whole |-> Abs(n), frac |-> 0,
     decimals |-> 0, width |-> 0]

\* the digits after the point that remain when trailing zeros are dropped
RECURSIVE Trimmed(_, _)
Trimmed(frac, d) ==
    IF d = 0 \/ frac % 10 # 0 THEN d ELSE Trimmed(frac \div 10, d - 1)

\* numpy's default printing of a float array (precision 8, shortest digits
\* per element): exponent notation when the smallest nonzero magnitude is
\* below 1e-4 or the magnitudes span more than a factor 1000
NumpyUsesExponent(arr) ==
    LET nz == { Abs(arr[i]) : i \in { j \in DOMAIN arr : arr[j] # 0 } }
    IN  /\ nz # {}
        /\ \E lo \in nz, hi \in nz :
              /\ \A m \in nz : lo <= m /\ m <= hi
              /\ (lo < Scale \div 10^4 \/ hi \div 1000 > lo)

NumpyFloat(arr) ==
    [i \in DOMAIN arr |->
        LET x == arr[i]
            d == Trimmed(Abs(x) % Scale, 8)
        IN  IF NumpyUsesExponent(arr)
            THEN [notation |-> "exponent", neg |-> x < 0, whole |-> 0, frac |-> 0,
                  decimals |-> 8, width |-> 0]
            ELSE [notation |-> "fixed", neg |-> x < 0,
                  whole |-> Abs(x) \div Scale,
                  frac |-> (Abs(x) % Scale) \div 10^(8 - d),
                  decimals |-> d, width |-> 0]]

\* print of an integer array
NumpyInt(arr) == [i \in DOMAIN arr |-> FormatInt(arr[i])]

\* a piece of text: which text it is and the numbers written into it
Text(id, numbers) == [text |-> id, nums |-> numbers]

(***************************************************************************)
(* State                                                                   *)
(***************************************************************************)
VARIABLES
    pc,              \* the line of the script's next statement
    status,          \* "running", "exited" or "crashed"
    exit_code,       \* <<>> while running, then <<code>>
    globals,         \* the module namespace: name -> value
    stdout,          \* what print has written, in order
    stderr,          \* tracebacks and warnings
    style,           \* matplotlib's style
    figure,          \* the drawing calls applied to the figure, in order
    png,             \* the file rotation_visualisierung.png
    savefig_calls,   \* how often plt.savefig was called
    show_calls,      \* how often plt.show was called
    window,          \* the interactive window: "none", "open", "closed"
    display,         \* whether a graphical display is available
    executed,        \* the lines executed so far
    theta1,          \* builder calls made on their own: the first angle,
    theta2,          \*   the second angle,
    M1,              \*   erstelle_rotationsmatrix(theta1),
    M2,              \*   erstelle_rotationsmatrix(theta2),
    M12,             \*   erstelle_rotationsmatrix(theta1 + theta2),
    v,               \*   a vector
    v_rot,           \*   and M1 @ v
    calls            \* which of these calls were made

scriptVars == <<pc, status, exit_code, globals, stdout, stderr, style, figure,
                png, savefig_calls, show_calls, window, display, executed>>
callVars == <<theta1, theta2, M1, M2, M12, v, v_rot, calls>>
vars == <<scriptVars, callVars>>

\* the line after the script's last one
EndOfScript == 160 + 1

\* name = value
Bind(g, name, value) ==
    [n \in DOMAIN g \cup {name} |-> IF n = name THEN value ELSE g[n]]

NoFile == [state |-> "absent", content |-> <<>>]
OldFile == [state |-> "old", content |-> <<>>]
PartialFile == [state |-> "partial", content |-> <<>>]

\* before the first statement: nothing bound, nothing printed or drawn; the
\* working directory may hold an image of an earlier run, a display may be
\* available
ScriptStart ==
    /\ pc = 41
    /\ status = "running"
    /\ exit_code = <<>>
    /\ globals = <<>>
    /\ stdout = <<>>
    /\ stderr = <<>>
    /\ style = "default"
    /\ figure = <<>>
    /\ savefig_calls = 0
    /\ show_calls = 0
    /\ window = "none"
    /\ executed = <<>>

NoCalls ==
    /\ theta1 = 0
    /\ theta2 = 0
    /\ M1 = <<>>
    /\ M2 = <<>>
    /\ M12 = <<>>
    /\ v = <<>>
    /\ v_rot = <<>>
    /\ calls = {}

Init ==
    /\ ScriptStart
    /\ png \in {NoFile, OldFile}
    /\ display \in BOOLEAN
    /\ NoCalls

(***************************************************************************)
(* 2. HAUPTPROGRAMM and 3. VISUALISIERUNG: one action per statement, named *)
(* by the statement's line                                                 *)
(***************************************************************************)
G(name) == globals[name]

At(line) == status = "running" /\ pc = line

\* the statement at `line` runs and control passes to `next`
Step(line, next) ==
    /\ At(line)
    /\ pc' = next
    /\ executed' = Append(executed, line)
    /\ UNCHANGED <<status, exit_code, display, callVars>>

\* name = value
Assign(line, next, name, value) ==
    /\ Step(line, next)
    /\ globals' = Bind(globals, name, value)
    /\ UNCHANGED <<stdout, stderr, style, figure, png, savefig_calls, show_calls, window>>

\* print(...)
PrintLine(line, next, item) ==
    /\ Step(line, next)
    /\ stdout' = Append(stdout, item)
    /\ UNCHANGED <<globals, stderr, style, figure, png, savefig_calls, show_calls, window>>

\* a drawing call: what is drawn, with which data, and its legend label
Call(name, args) ==
    [call |-> name, data |-> args, labelled |-> FALSE, label |-> Text("", <<>>)]
Labelled(name, args, legend_label) ==
    [call |-> name, data |-> args, labelled |-> TRUE, label |-> legend_label]

\* ax.<call>(...), fig.<call>(...), plt.<call>(...)
Draw(line, next, call) ==
    /\ Step(line, next)
    /\ figure' = Append(figure, call)
    /\ UNCHANGED <<globals, stdout, stderr, style, png, savefig_calls, show_calls, window>>

Rule == Text("==================================================", <<>>)
Flat(M) == M[1] \o M[2]

L41_WINKEL == Assign(41, 44, "WINKEL", 45)

L44_R == Assign(44, 46, "R", erstelle_rotationsmatrix(G("WINKEL")))

L46_print == PrintLine(46, 47, Rule)

L47_print == PrintLine(47, 48, Text("Rotationsmatrix fuer {WINKEL} Grad:", <<FormatInt(G("WINKEL"))>>))

L48_print == PrintLine(48, 49, Rule)

L49_print_R == PrintLine(49, 50, Text("{R}", NumpyFloat(Flat(G("R")))))

L50_print == PrintLine(50, 53, Text("", <<>>))

L53_original_vektor == Assign(53, 56, "original_vektor", <<1, 0>>)

\* a slip: the product written into the array of the original vector, which
\* both names then share
L56_gedrehter_vektor_in_place ==
    /\ Step(56, 58)
    /\ globals' = Bind(Bind(globals, "gedrehter_vektor", matmul(G("R"), G("original_vektor"))),
                       "original_vektor", matmul(G("R"), G("original_vektor")))
    /\ UNCHANGED <<stdout, stderr, style, figure, png, savefig_calls, show_calls, window>>

L56_gedrehter_vektor ==
    Assign(56, 58, "gedrehter_vektor", matmul(G("R"), G("original_vektor")))

L58_print_original ==
    PrintLine(58, 59, Text("Original-Vektor:     {original_vektor}",
                           NumpyInt(G("original_vektor"))))

L59_print_gedreht ==
    PrintLine(59, 60, Text("Gedrehter Vektor:    {gedrehter_vektor}",
                           NumpyFloat(G("gedrehter_vektor"))))

L60_print == PrintLine(60, 67, Text("", <<>>))

L67_style ==
    /\ Step(67, 68)
    /\ style' = "dark_background"
    /\ UNCHANGED <<globals, stdout, stderr, figure, png, savefig_calls, show_calls, window>>

L68_subplots ==
    /\ Step(68, 71)
    /\ globals' = Bind(Bind(globals, "fig", "Figure"), "ax", "Axes")
    /\ figure' = <<Call("subplots", [style |-> style, figsize |-> <<10, 10>>])>>
    /\ UNCHANGED <<stdout, stderr, style, png, savefig_calls, show_calls, window>>

L71_fig_facecolor == Draw(71, 72, Call("fig.patch.set_facecolor", "#1a1a2e"))

L72_ax_facecolor == Draw(72, 75, Call("set_facecolor", "#16213e"))

L75_axhline == Draw(75, 76, Call("axhline", [y |-> 0, color |-> "#4a5568"]))

L76_axvline == Draw(76, 79, Call("axvline", [x |-> 0, color |-> "#4a5568"]))

L79_grid == Draw(79, 82, Call("grid", [color |-> "#4a5568", on |-> TRUE]))

L82_theta == Assign(82, 83, "theta", Linspace(TwoPi, 100))

L83_einheitskreis ==
    Draw(83, 88, Labelled("plot",
        [x |-> [i \in DOMAIN G("theta") |-> Cos(G("theta")[i])],
         y |-> [i \in DOMAIN G("theta") |-> Sin(G("theta")[i])],
         color |-> "#718096"],
        Text("Einheitskreis", <<>>)))

L88_quiver_original ==
    Draw(88, 94, Labelled("quiver",
        [color |-> "#00d4ff", X |-> 0, Y |-> 0,
         U |-> G("original_vektor")[1], V |-> G("original_vektor")[2]],
        Text("Original: [{original_vektor[0]}, {original_vektor[1]}]",
             <<FormatInt(G("original_vektor")[1]), FormatInt(G("original_vektor")[2])>>)))

\* a slip: the label with four decimal places, as in the text block
L94_quiver_gedreht_4f ==
    Draw(94, 100, Labelled("quiver",
        [color |-> "#ff6b9d", X |-> 0, Y |-> 0,
         U |-> G("gedrehter_vektor")[1], V |-> G("gedrehter_vektor")[2]],
        Text("Gedreht ({WINKEL} Grad): [{gedrehter_vektor[0]:.3f}, {gedrehter_vektor[1]:.3f}]",
             <<FormatInt(G("WINKEL")),
               FormatFixed(G("gedrehter_vektor")[1], 0, 4),
               FormatFixed(G("gedrehter_vektor")[2], 0, 4)>>)))

L94_quiver_gedreht ==
    Draw(94, 100, Labelled("quiver",
        [color |-> "#ff6b9d", X |-> 0, Y |-> 0,
         U |-> G("gedrehter_vektor")[1], V |-> G("gedrehter_vektor")[2]],
        Text("Gedreht ({WINKEL} Grad): [{gedrehter_vektor[0]:.3f}, {gedrehter_vektor[1]:.3f}]",
             <<FormatInt(G("WINKEL")),
               FormatFixed(G("gedrehter_vektor")[1], 0, 3),
               FormatFixed(G("gedrehter_vektor")[2], 0, 3)>>)))

L100_winkel_bogen == Assign(100, 101, "winkel_bogen", Linspace(Radians(G("WINKEL")), 30))

L101_bogen_radius == Assign(101, 102, "bogen_radius", 3 * 10^7)

L102_bogen ==
    Draw(102, 107, Labelled("plot",
        [x |-> [i \in DOMAIN G("winkel_bogen") |->
                   Mul[G("bogen_radius"), Cos(G("winkel_bogen")[i])]],
         y |-> [i \in DOMAIN G("winkel_bogen") |->
                   Mul[G("bogen_radius"), Sin(G("winkel_bogen")[i])]],
         color |-> "#ffd93d"],
        Text("Drehwinkel: {WINKEL} Grad", <<FormatInt(G("WINKEL"))>>)))

L107_annotate ==
    Draw(107, 114, Call("annotate",
        [color |-> "#ffd93d", s |-> Text("{WINKEL} Grad", <<FormatInt(G("WINKEL"))>>),
         xy |-> <<25 * 10^6, 12 * 10^6>>]))

L114_xlim == Draw(114, 115, Call("set_xlim", <<-15 * 10^7, 15 * 10^7>>))

L115_ylim == Draw(115, 116, Call("set_ylim", <<-15 * 10^7, 15 * 10^7>>))

L116_aspect == Draw(116, 119, Call("set_aspect", "equal"))

L119_title ==
    Draw(119, 121, Call("set_title",
        Text("2D-Rotationsmatrix: Drehung um {WINKEL} Grad", <<FormatInt(G("WINKEL"))>>)))

L121_xlabel == Draw(121, 122, Call("set_xlabel", Text("X-Achse", <<>>)))

L122_ylabel == Draw(122, 125, Call("set_ylabel", Text("Y-Achse", <<>>)))

\* the legend lists the labels of the labelled artists drawn so far
L125_legend ==
    /\ Step(125, 127)
    /\ globals' = Bind(globals, "legend", "Legend")
    /\ figure' = Append(figure, Call("legend",
          [entries |-> { figure[i].label : i \in { j \in DOMAIN figure : figure[j].labelled } },
           text_color |-> "default", loc |-> "upper left"]))
    /\ UNCHANGED <<stdout, stderr, style, png, savefig_calls, show_calls, window>>

\* for text in legend.get_texts(): text.set_color('white')
L127_legend_texts ==
    /\ Step(127, 131)
    /\ globals' = Bind(globals, "text", "Text")
    /\ figure' = [i \in DOMAIN figure |->
                    IF figure[i].call = "legend"
                    THEN [figure[i] EXCEPT !.data.text_color = "white"]
                    ELSE figure[i]]
    /\ UNCHANGED <<stdout, stderr, style, png, savefig_calls, show_calls, window>>

L131_matrix_text ==
    Assign(131, 142, "matrix_text",
        Text("Rotationsmatrix R({WINKEL} Grad): ... Berechnung: v' = R . v ...",
             <<FormatInt(G("WINKEL")),
               FormatFixed(G("R")[1][1], 7, 4), FormatFixed(G("R")[1][2], 7, 4),
               FormatFixed(G("R")[2][1], 7, 4), FormatFixed(G("R")[2][2], 7, 4),
               FormatFixed(G("gedrehter_vektor")[1], 0, 4),
               FormatFixed(G("R")[1][1], 0, 4), FormatFixed(G("R")[1][2], 0, 4),
               FormatInt(G("original_vektor")[1]),
               FormatFixed(G("gedrehter_vektor")[2], 0, 4),
               FormatFixed(G("R")[2][1], 0, 4), FormatFixed(G("R")[2][2], 0, 4),
               FormatInt(G("original_vektor")[2])>>))

L142_text ==
    Draw(142, 154, Call("text", [x |-> 98 * 10^6, y |-> 2 * 10^6, s |-> G("matrix_text")]))

\* a slip: plt.show() before plt.savefig(), and the script goes on from there
L154_tight_layout_then_show == Draw(154, 156, Call("tight_layout", <<>>))

L154_tight_layout == Draw(154, 155, Call("tight_layout", <<>>))

\* a slip: the write repeated
L155_savefig_again ==
    /\ Step(155, 155)
    /\ savefig_calls' = savefig_calls + 1
    /\ png' = [state |-> "written", content |-> figure]
    /\ UNCHANGED <<globals, stdout, stderr, style, figure, show_calls, window>>

\* plt.savefig writes the figure as it is now, over any file of that name
L155_savefig ==
    /\ Step(155, 156)
    /\ savefig_calls' = savefig_calls + 1
    /\ png' = [state |-> "written", content |-> figure]
    /\ UNCHANGED <<globals, stdout, stderr, style, figure, show_calls, window>>

\* a slip: the exception caught and the script going on
L155_savefig_raises_caught ==
    /\ Step(155, 156)
    /\ savefig_calls' = savefig_calls + 1
    /\ png' \in {png, PartialFile}
    /\ stderr' = Append(stderr, "savefig failed")
    /\ UNCHANGED <<globals, stdout, style, figure, show_calls, window>>

\* plt.savefig raises (no permission, disk full): nothing catches the
\* exception, the interpreter prints the traceback and exits with status 1;
\* the file is untouched or left incomplete
L155_savefig_raises ==
    /\ At(155)
    /\ savefig_calls' = savefig_calls + 1
    /\ png' \in {png, PartialFile}
    /\ stderr' = Append(stderr, "Traceback (most recent call last): savefig")
    /\ status' = "crashed"
    /\ exit_code' = <<1>>
    /\ executed' = Append(executed, 155)
    /\ UNCHANGED <<pc, globals, stdout, style, figure, show_calls, window, display, callVars>>

\* plt.show without a display: a warning, and the call returns
L156_show_no_display ==
    /\ Step(156, 158)
    /\ ~display
    /\ show_calls' = show_calls + 1
    /\ stderr' = Append(stderr, "UserWarning: non-interactive, cannot be shown")
    /\ UNCHANGED <<globals, stdout, style, figure, png, savefig_calls, window>>

\* plt.show with a display: the window opens and the call blocks
L156_show_opens ==
    /\ At(156)
    /\ display
    /\ window = "none"
    /\ window' = "open"
    /\ show_calls' = show_calls + 1
    /\ UNCHANGED <<pc, status, exit_code, globals, stdout, stderr, style, figure, png,
                   savefig_calls, display, executed, callVars>>

\* the user closes the window and plt.show returns
L156_show_returns ==
    /\ Step(156, 158)
    /\ window = "open"
    /\ window' = "closed"
    /\ UNCHANGED <<globals, stdout, stderr, style, figure, png, savefig_calls, show_calls>>

L158_print == PrintLine(158, 159, Rule)

Gespeichert == Text("Visualisierung gespeichert als 'rotation_visualisierung.png'", <<>>)

L159_print_gespeichert == PrintLine(159, 160, Gespeichert)

L160_print == PrintLine(160, EndOfScript, Rule)

\* the end of the script: the interpreter exits with status 0
Exit ==
    /\ At(EndOfScript)
    /\ status' = "exited"
    /\ exit_code' = <<0>>
    /\ UNCHANGED <<pc, globals, stdout, stderr, style, figure, png, savefig_calls,
                   show_calls, window, display, executed, callVars>>

\* the lines of the script's statements, in order
AllLines ==
    << 41, 44, 46, 47, 48, 49, 50, 53, 56, 58, 59, 60, 67, 68, 71, 72, 75, 76, 79,
       82, 83, 88, 94, 100, 101, 102, 107, 114, 115, 116, 119, 121, 122, 125, 127,
       131, 142, 154, 155, 156, 158, 159, 160 >>

\* the steps the interpreter takes on its own
Run ==
    \/ L41_WINKEL \/ L44_R \/ L46_print \/ L47_print \/ L48_print \/ L49_print_R
    \/ L50_print \/ L53_original_vektor \/ L56_gedrehter_vektor
    \/ L58_print_original \/ L59_print_gedreht \/ L60_print
    \/ L67_style \/ L68_subplots \/ L71_fig_facecolor \/ L72_ax_facecolor
    \/ L75_axhline \/ L76_axvline \/ L79_grid \/ L82_theta \/ L83_einheitskreis
    \/ L88_quiver_original \/ L94_quiver_gedreht \/ L100_winkel_bogen
    \/ L101_bogen_radius \/ L102_bogen \/ L107_annotate \/ L114_xlim \/ L115_ylim
    \/ L116_aspect \/ L119_title \/ L121_xlabel \/ L122_ylabel \/ L125_legend
    \/ L127_legend_texts \/ L131_matrix_text \/ L142_text \/ L154_tight_layout
    \/ L155_savefig \/ L155_savefig_raises \/ L156_show_no_display
    \/ L156_show_opens \/ L158_print \/ L159_print_gespeichert \/ L160_print
    \/ Exit

Next == Run \/ L156_show_returns

Spec == Init /\ [][Next]_vars

\* the interpreter executes the next statement whenever there is one; when
\* the user closes the window is up to the user
SpecFair == Spec /\ WF_vars(Run)

(***************************************************************************)
(* The two functions called on their own, over a range of arguments        *)
(***************************************************************************)
\* angles are the multiples of 15 degrees up to MaxTurnSteps * 15 either
\* way, and a few that are no such multiple
MaxTurnSteps == 30
Angles ==
    { 15 * k : k \in -MaxTurnSteps..MaxTurnSteps }
        \cup {-361, -100, -1, 1, 7, 100, 359, 361}

\* vectors have integer components up to VecMax either way
VecMax == 1
Vectors == { <<a, b>> : a \in -VecMax..VecMax, b \in -VecMax..VecMax }

InitCalls ==
    /\ ScriptStart
    /\ png = NoFile
    /\ display = FALSE
    /\ theta1 \in Angles
    /\ theta2 = 0
    /\ M1 = <<>>
    /\ M2 = <<>>
    /\ M12 = <<>>
    /\ v = <<>>
    /\ v_rot = <<>>
    /\ calls = {}

\* M1 = erstelle_rotationsmatrix(theta1)
Call_erstelle_1 ==
    /\ calls = {}
    /\ M1' = erstelle_rotationsmatrix(theta1)
    /\ calls' = {"M1"}
    /\ UNCHANGED <<scriptVars, theta1, theta2, M2, M12, v, v_rot>>

\* M2 = erstelle_rotationsmatrix(theta2)
Call_erstelle_2 ==
    /\ calls = {"M1"}
    /\ \E t \in Angles :
          /\ theta2' = t
          /\ M2' = erstelle_rotationsmatrix(t)
    /\ calls' = {"M1", "M2"}
    /\ UNCHANGED <<scriptVars, theta1, M1, M12, v, v_rot>>

\* M12 = erstelle_rotationsmatrix(theta1 + theta2)
Call_erstelle_sum ==
    /\ calls = {"M1", "M2"}
    /\ M12' = erstelle_rotationsmatrix(theta1 + theta2)
    /\ calls' = {"M1", "M2", "M12"}
    /\ UNCHANGED <<scriptVars, theta1, theta2, M1, M2, v, v_rot>>

\* v_rot = M1 @ v
Call_matmul ==
    /\ calls = {"M1"}
    /\ \E w \in Vectors :
          /\ v' = w
          /\ v_rot' = matmul(M1, w)
    /\ calls' = {"M1", "v"}
    /\ UNCHANGED <<scriptVars, theta1, theta2, M1, M2, M12>>

NextCalls == Call_erstelle_1 \/ Call_erstelle_2 \/ Call_erstelle_sum \/ Call_matmul

SpecCalls == InitCalls /\ [][NextCalls]_vars

(***************************************************************************)
(* What the claims are stated with                                         *)
(***************************************************************************)
\* two numbers agree within the tolerance: 1e-7
Tol == Scale \div 10^7
Close(a, b) == Abs(a - b) <= Tol
CloseMatrix(A, B) == \A i \in 1..2, j \in 1..2 : Close(A[i][j], B[i][j])

Identity == << <<Scale, 0>>, <<0, Scale>> >>
Transpose(A) == << <<A[1][1], A[2][1]>>, <<A[1][2], A[2][2]>> >>
MatMat(A, B) ==
    [i \in 1..2 |-> [j \in 1..2 |-> Mul[A[i][1], B[1][j]] + Mul[A[i][2], B[2][j]]]]
Det(A) == Mul[A[1][1], A[2][2]] - Mul[A[1][2], A[2][1]]

\* cos of the multiples of 15 degrees from 0 to 345, to 8 places
CosTable ==
    << 100000000, 96592583, 86602540, 70710678, 50000000, 25881905,
       0, -25881905, -50000000, -70710678, -86602540, -96592583,
       -100000000, -96592583, -86602540, -70710678, -50000000, -25881905,
       0, 25881905, 50000000, 70710678, 86602540, 96592583 >>
RefCos(grad) == CosTable[(grad % 360) \div 15 + 1]
RefSin(grad) == RefCos(grad - 90)

\* the builder's calls made so far: <<angle, result>>
Built ==
    {<<theta1, M1>> : c \in calls \cap {"M1"}}
        \cup {<<theta2, M2>> : c \in calls \cap {"M2"}}
        \cup {<<theta1 + theta2, M12>> : c \in calls \cap {"M12"}}

(***************************************************************************)
(* The claims about the builder and the product                            *)
(***************************************************************************)
\* C1: for every angle in degrees, negative ones and ones beyond +-360
\* included, erstelle_rotationsmatrix returns the 2x2 matrix
\* [[cos t, -sin t], [sin t, cos t]] with t the angle in radians: the entries
\* are the cosine and sine of the angle (within tolerance of their values at
\* the multiples of 15 degrees), the rotation is counter-clockwise (an angle
\* strictly between 0 and 180 degrees modulo 360 takes (1, 0) to a point
\* above the x axis), every call returns a matrix, and no call changes
\* the script's state or an earlier result.
C1_BuilderContract ==
    /\ \A b \in Built :
          LET grad == b[1]
              M == b[2]
          IN  /\ DOMAIN M = 1..2
              /\ \A i \in 1..2 : DOMAIN M[i] = 1..2 /\ \A j \in 1..2 : M[i][j] \in Int
              /\ M[1][1] = Cos(Radians(grad))
              /\ M[1][2] = -Sin(Radians(grad))
              /\ M[2][1] = Sin(Radians(grad))
              /\ M[2][2] = Cos(Radians(grad))
              /\ grad % 15 = 0 =>
                    /\ Close(M[1][1], RefCos(grad))
                    /\ Close(M[1][2], -RefSin(grad))
                    /\ Close(M[2][1], RefSin(grad))
                    /\ Close(M[2][2], RefCos(grad))
              /\ grad % 360 \in 1..179 => M[2][1] > 0 /\ M[1][2] < 0
              /\ grad % 360 \in 181..359 => M[2][1] < 0 /\ M[1][2] > 0
    /\ calls # {} => ScriptStart /\ png = NoFile
    /\ "M2" \in calls => M1 = erstelle_rotationsmatrix(theta1)

\* a negative angle beyond -360 and a positive one beyond 360 were built
C1_Witness ==
    /\ calls = {"M1", "M2", "M12"}
    /\ theta1 = -405
    /\ theta2 = 450
    /\ M12[2][1] > 0

\* C2: the matrix M the builder returns is orthonormal: Mt.M and M.Mt are the
\* identity within tolerance (rows and columns have unit length and are
\* orthogonal) and det(M) is 1 within tolerance.
C2_Orthonormal ==
    \A b \in Built :
        /\ CloseMatrix(MatMat(Transpose(b[2]), b[2]), Identity)
        /\ CloseMatrix(MatMat(b[2], Transpose(b[2])), Identity)
        /\ Close(Det(b[2]), Scale)

\* a matrix with no zero entry was built, for an angle beyond 360 degrees
C2_Witness ==
    /\ "M1" \in calls
    /\ theta1 = 435
    /\ \A i \in 1..2, j \in 1..2 : M1[i][j] # 0

\* C3: erstelle_rotationsmatrix(t1) . erstelle_rotationsmatrix(t2) equals
\* erstelle_rotationsmatrix(t1 + t2) within tolerance.
C3_Composition ==
    "M12" \in calls => CloseMatrix(MatMat(M1, M2), M12)

\* the three matrices were built and the product is not the third matrix
\* exactly
C3_Witness ==
    /\ "M12" \in calls
    /\ theta1 = 100
    /\ theta2 = -361
    /\ \E i \in 1..2, j \in 1..2 : MatMat(M1, M2)[i][j] # M12[i][j]

\* C4: the matrix for 0 degrees is the identity, the matrix for any multiple
\* of 360 degrees is the identity within tolerance, and the matrices of two
\* angles that differ by a multiple of 360 degrees agree within tolerance.
C4_Periodicity ==
    /\ \A b \in Built :
          /\ b[1] = 0 => b[2] = Identity
          /\ b[1] % 360 = 0 => CloseMatrix(b[2], Identity)
    /\ \A b \in Built, c \in Built :
          (b[1] - c[1]) % 360 = 0 => CloseMatrix(b[2], c[2])

\* the matrices for 360 and for 0 degrees were built; they differ in the
\* last place
C4_Witness ==
    /\ "M2" \in calls
    /\ theta1 = 360
    /\ theta2 = 0
    /\ M1 # M2

\* C5: the rotated vector is the matrix-vector product,
\* v'_x = R00*v_x + R01*v_y and v'_y = R10*v_x + R11*v_y; M(90) takes (1, 0)
\* to (0, 1) within tolerance, M(45) takes (1, 0) and M(-45) takes (0, 1) to
\* a vector that reads (0.7071, 0.7071) to four places.
C5_MatrixVectorProduct ==
    "v" \in calls =>
        /\ v_rot[1] = M1[1][1] * v[1] + M1[1][2] * v[2]
        /\ v_rot[2] = M1[2][1] * v[1] + M1[2][2] * v[2]
        /\ theta1 = 90 /\ v = <<1, 0>> => Close(v_rot[1], 0) /\ Close(v_rot[2], Scale)
        /\ (theta1 = 45 /\ v = <<1, 0>>) \/ (theta1 = -45 /\ v = <<0, 1>>) =>
              \A i \in 1..2 :
                  /\ ~FormatFixed(v_rot[i], 0, 4).neg
                  /\ FormatFixed(v_rot[i], 0, 4).whole = 0
                  /\ FormatFixed(v_rot[i], 0, 4).frac = 7071

\* M(-45) was applied to (0, 1)
C5_Witness ==
    /\ "v" \in calls
    /\ theta1 = -45
    /\ v = <<0, 1>>
    /\ v_rot[1] > 0

(***************************************************************************)
(* The claims about the script                                             *)
(***************************************************************************)
Printed(item) == \E i \in DOMAIN stdout : stdout[i].text = item.text
Drawn(content, name) == \E i \in DOMAIN content : content[i].call = name
DrawnLabel(content, name, label) ==
    \E i \in DOMAIN content :
        content[i].call = name /\ content[i].labelled /\ content[i].label.text = label

ReportR == Text("{R}", <<>>)
ReportOriginal == Text("Original-Vektor:     {original_vektor}", <<>>)
ReportGedreht == Text("Gedrehter Vektor:    {gedrehter_vektor}", <<>>)
LabelOriginal == "Original: [{original_vektor[0]}, {original_vektor[1]}]"
LabelGedreht ==
    "Gedreht ({WINKEL} Grad): [{gedrehter_vektor[0]:.3f}, {gedrehter_vektor[1]:.3f}]"

\* axes, grid, unit circle, both arrows, arc, annotation, legend, text block
FigureComplete(content) ==
    /\ Drawn(content, "axhline")
    /\ Drawn(content, "axvline")
    /\ Drawn(content, "grid")
    /\ DrawnLabel(content, "plot", "Einheitskreis")
    /\ DrawnLabel(content, "quiver", LabelOriginal)
    /\ DrawnLabel(content, "quiver", LabelGedreht)
    /\ DrawnLabel(content, "plot", "Drehwinkel: {WINKEL} Grad")
    /\ Drawn(content, "annotate")
    /\ Drawn(content, "legend")
    /\ Drawn(content, "text")

\* C6: the steps happen in the order compute, print, plot, save: nothing is
\* printed or drawn of the matrix and the rotated vector before they are
\* computed, the console report is complete before the figure is built, the
\* file is written only after every plot element was added, the window is
\* shown only after the file is written, and the closing message is printed
\* only after the file is written.
C6_Order ==
    /\ Printed(ReportR) => "R" \in DOMAIN globals
    /\ Printed(ReportGedreht) => "gedrehter_vektor" \in DOMAIN globals
    /\ style # "default" \/ figure # <<>> =>
          /\ {"R", "gedrehter_vektor"} \subseteq DOMAIN globals
          /\ Printed(ReportR) /\ Printed(ReportOriginal) /\ Printed(ReportGedreht)
    /\ savefig_calls > 0 => FigureComplete(figure)
    /\ png.state = "written" => FigureComplete(png.content) /\ png.content = figure
    /\ show_calls > 0 => png.state = "written"
    /\ Printed(Gespeichert) => png.state = "written" /\ show_calls = 1

\* a run that wrote the file, showed the window and printed the message
C6_Witness ==
    /\ status = "exited"
    /\ window = "closed"
    /\ png.state = "written"
    /\ Printed(Gespeichert)

\* C7: a failed write of the image file is fatal: the process ends with a
\* non-zero status and a traceback, the write is not retried, nothing runs
\* afterwards, the window is never shown and the closing message is never
\* printed.
C7_WriteFailureIsFatal ==
    /\ savefig_calls <= 1
    /\ savefig_calls > 0 /\ png.state # "written" =>
          /\ status = "crashed"
          /\ exit_code = <<1>>
          /\ stderr # <<>>
    /\ status = "crashed" =>
          /\ savefig_calls = 1
          /\ png.state # "written"
          /\ show_calls = 0
          /\ window = "none"
          /\ ~Printed(Gespeichert)
          /\ ~ENABLED Next

\* the write failed and left an incomplete file
C7_Witness ==
    /\ status = "crashed"
    /\ png = PartialFile
    /\ exit_code = <<1>>

\* the numbers of the matrix and of the two vectors, as the console report,
\* the legend label of the rotated vector and the text block render them
ConsoleNumbers ==
    UNION { { stdout[i].nums[k] : k \in DOMAIN stdout[i].nums } :
            i \in { j \in DOMAIN stdout :
                      stdout[j].text \in {ReportR.text, ReportOriginal.text,
                                          ReportGedreht.text} } }
LegendNumbers ==
    { figure[i].label.nums[k] : i \in { j \in DOMAIN figure :
                                          figure[j].labelled /\ figure[j].label.text = LabelGedreht },
                                k \in 2..3 }
TextBlockNumbers ==
    { figure[i].data.s.nums[k] : i \in { j \in DOMAIN figure : figure[j].call = "text" },
                                 k \in 2..13 }

\* C8 as claimed: every number of the matrix and of the vectors that the
\* console report, the legend label of the rotated vector or the text block
\* renders is written with 4 decimal places.
C8_FourDecimalsEverywhere ==
    \A n \in ConsoleNumbers \cup LegendNumbers \cup TextBlockNumbers :
        n.notation = "fixed" /\ n.decimals = 4

\* C8 as amended: the text block writes the entries of R and the components
\* of the rotated vector with 4 decimal places (the matrix display in width
\* 7); the legend label writes the rotated vector with 3 decimal places; the
\* console report prints R and the rotated vector as numpy prints an array,
\* with 8 decimal places for the 45 degree matrix; the components of the
\* original vector are integers and are written without decimal places
\* everywhere.
C8_Formats ==
    /\ \A i \in DOMAIN figure : figure[i].call = "text" =>
          LET n == figure[i].data.s.nums
          IN  /\ \A k \in {2, 3, 4, 5} :
                    n[k].notation = "fixed" /\ n[k].decimals = 4 /\ n[k].width = 7
              /\ \A k \in {6, 7, 8, 10, 11, 12} :
                    n[k].notation = "fixed" /\ n[k].decimals = 4 /\ n[k].width = 0
              /\ \A k \in {9, 13} : n[k].notation = "int"
              /\ n[2].frac = 7071 /\ n[6].frac = 7071 /\ n[10].frac = 7071
    /\ \A n \in LegendNumbers :
          n.notation = "fixed" /\ n.decimals = 3 /\ n.frac = 707
    /\ \A i \in DOMAIN stdout :
          /\ stdout[i].text \in {ReportR.text, ReportGedreht.text} =>
                \A k \in DOMAIN stdout[i].nums :
                    /\ stdout[i].nums[k].notation = "fixed"
                    /\ stdout[i].nums[k].decimals = 8
          /\ stdout[i].text = ReportOriginal.text =>
                \A k \in DOMAIN stdout[i].nums : stdout[i].nums[k].notation = "int"

\* everything was printed and drawn
C8_Witness ==
    /\ Printed(ReportR) /\ Printed(ReportGedreht)
    /\ LegendNumbers # {}
    /\ TextBlockNumbers # {}
    /\ png.state = "written"

Entities == {"WINKEL", "R", "original_vektor", "gedrehter_vektor"}

\* C9: once assigned, WINKEL, R, the original vector and the rotated vector
\* keep their value through every later step, and what is drawn and written
\* into the figure is what was printed: the arrows, the labels, the text
\* block and the console report all hold the values of these four names.
C9_NoMutation ==
    /\ [][\A n \in Entities \cap DOMAIN globals :
             n \in DOMAIN globals' /\ globals'[n] = globals[n]]_vars
    /\ [](\A i \in DOMAIN stdout :
             /\ stdout[i].text = ReportR.text =>
                   stdout[i].nums = NumpyFloat(Flat(G("R")))
             /\ stdout[i].text = ReportOriginal.text =>
                   stdout[i].nums = NumpyInt(G("original_vektor"))
             /\ stdout[i].text = ReportGedreht.text =>
                   stdout[i].nums = NumpyFloat(G("gedrehter_vektor")))
    /\ [](\A i \in DOMAIN figure :
             /\ figure[i].labelled /\ figure[i].label.text = LabelOriginal =>
                   <<figure[i].data.U, figure[i].data.V>> = G("original_vektor")
             /\ figure[i].labelled /\ figure[i].label.text = LabelGedreht =>
                   /\ <<figure[i].data.U, figure[i].data.V>> = G("gedrehter_vektor")
                   /\ figure[i].label.nums[1] = FormatInt(G("WINKEL"))
             /\ figure[i].call = "text" =>
                   /\ figure[i].data.s.nums[1] = FormatInt(G("WINKEL"))
                   /\ figure[i].data.s.nums[2] = FormatFixed(G("R")[1][1], 7, 4)
                   /\ figure[i].data.s.nums[5] = FormatFixed(G("R")[2][2], 7, 4)
                   /\ figure[i].data.s.nums[6] = FormatFixed(G("gedrehter_vektor")[1], 0, 4)
                   /\ figure[i].data.s.nums[9] = FormatInt(G("original_vektor")[1]))

\* the run is over and the four names hold what they were assigned
C9_Witness ==
    /\ status = "exited"
    /\ Entities \subseteq DOMAIN globals
    /\ G("WINKEL") = 45
    /\ G("original_vektor") = <<1, 0>>
    /\ G("gedrehter_vektor") = <<G("R")[1][1], G("R")[2][1]>>

IsPrefix(p, q) == Len(p) <= Len(q) /\ \A i \in DOMAIN p : p[i] = q[i]

\* C10: the script is a straight line: its statements run once each, in
\* order, the image file is written once, and the process ends: with status
\* 0 after the last statement, or by the failed write, unless plt.show
\* never returns.
C10_StraightLine ==
    /\ [](/\ IsPrefix(executed, AllLines)
          /\ savefig_calls <= 1
          /\ status = "exited" =>
                /\ executed = AllLines
                /\ savefig_calls = 1
                /\ png.state = "written"
                /\ exit_code = <<0>>
          /\ status = "crashed" => png.state # "written")
    /\ \/ <>(status # "running")
       \/ <>[](window = "open")

\* the process ended after the last statement, each statement run once
C10_Witness ==
    /\ status = "exited"
    /\ executed = AllLines
    /\ savefig_calls = 1

=============================================================================
